---- MODULE Spec2Model ----
(***************************************************************************)
(* Search-session state machine of MapScraper AI (App.tsx, types.ts).      *)
(*                                                                         *)
(* The model follows the React components App and SearchHero:              *)
(*   - `state` is App's SearchState record (useState, lines 108-114);      *)
(*   - `location` is App's GeolocationData | undefined (line 116);         *)
(*   - `inputValue` is SearchHero's text field (line 31);                  *)
(*   - `calls` are the invocations of geminiService.searchPlaces that      *)
(*     handleSearch is awaiting (line 138), each with the arguments it     *)
(*     was invoked with.                                                   *)
(* `lastEvent` names the handler that ran last. Text typed by the user is  *)
(* a sequence of characters so that trim() is computed, not assumed.       *)
(***************************************************************************)
EXTENDS Integers, Sequences, FiniteSets, TLC

\* Number of searches dispatched in one session.
MaxCalls == 3

VARIABLES state, location, geo, handleSearchLocation, inputValue, calls, nextId,
          lastEvent

vars == <<state, location, geo, handleSearchLocation, inputValue, calls, nextId,
          lastEvent>>

----------------------------------------------------------------------------
\* Values

\* Characters of the search box: whitespace and non-whitespace.
WhiteSpace == {" "}

\* Texts the user types: empty, blank, plain, and padded on either side.
Inputs == {<< >>, <<" ">>, <<"a">>, <<" ", "a">>, <<"a", " ">>}

\* error: string | null (types.ts line 14). No message equals the sentinel.
Null == "<null>"

\* location: GeolocationData | undefined (line 116, types.ts lines 17-20).
Undefined == [defined |-> FALSE, latitude |-> 0, longitude |-> 0]
Positions == {[defined |-> TRUE, latitude |-> 47, longitude |-> -122],
              [defined |-> TRUE, latitude |-> 51, longitude |-> 0]}

\* PlaceResult values (types.ts lines 2-7); optional fields absent.
P1 == [title |-> "Joe's Cafe", uri |-> "https://x"]
P2 == [title |-> "Dental One", uri |-> "https://y"]

\* Values a fulfilled searchPlaces promise can carry: { places, analysis }.
SearchData == {[places |-> <<P1, P2>>, analysis |-> "A"],
               [places |-> << >>, analysis |-> "B"],
               [places |-> << >>, analysis |-> ""]}
NoData == [places |-> << >>, analysis |-> ""]

\* Values a rejected searchPlaces promise can carry: an Error with a message,
\* an Error with an empty message, and a thrown value that is not an Error.
Thrown == {[isError |-> TRUE, message |-> "rate limited"],
           [isError |-> TRUE, message |-> ""],
           [isError |-> FALSE, message |-> ""]}
NoThrown == [isError |-> FALSE, message |-> ""]

\* The handler that ran last, with the value its await produced (if any).
Event(name) == [name |-> name, data |-> NoData, err |-> NoThrown]

----------------------------------------------------------------------------
\* Pure functions

\* String.prototype.trim: drops leading and trailing whitespace.
RECURSIVE trimStart(_)
trimStart(s) ==
    IF s # << >> /\ Head(s) \in WhiteSpace THEN trimStart(Tail(s)) ELSE s

RECURSIVE trimEnd(_)
trimEnd(s) ==
    IF s # << >> /\ s[Len(s)] \in WhiteSpace
    THEN trimEnd(SubSeq(s, 1, Len(s) - 1))
    ELSE s

trim(s) == trimEnd(trimStart(s))

\* Variants of canSubmit: the test without trim(), and no test at all.
canSubmitUntrimmed(value) == value # << >>
canSubmitAlways(value) == TRUE

\* SearchHero.handleSubmit's test `inputValue.trim()`: a non-empty string is truthy.
canSubmit(value) == trim(value) # << >>

\* The argument handleSubmit passes to onSearch.
onSearchArgument(value) == value

\* Variants of setLoading: one that also empties the previous results, one
\* that leaves the previous error in place.
setLoadingClearsResults(prev, query) ==
    [prev EXCEPT !.isLoading = TRUE, !.error = Null, !.query = query,
                 !.results = << >>, !.analysis = ""]
setLoadingKeepsError(prev, query) ==
    [prev EXCEPT !.isLoading = TRUE, !.query = query]

\* setState(prev => ({ ...prev, isLoading: true, error: null, query })).
setLoading(prev, query) ==
    [prev EXCEPT !.isLoading = TRUE, !.error = Null, !.query = query]

\* setState(prev => ({ ...prev, isLoading: false, results, analysis })).
setSuccess(prev, data) ==
    [prev EXCEPT !.isLoading = FALSE, !.results = data.places,
                 !.analysis = data.analysis]

\* The fallback text of the catch block.
GenericMessage == "An unexpected error occurred"

\* err instanceof Error ? err.message : "An unexpected error occurred".
errorMessage(err) ==
    IF err.isError THEN err.message ELSE GenericMessage

\* Variant of setFailure: one that also empties the previous results.
setFailureClearsResults(prev, err) ==
    [prev EXCEPT !.isLoading = FALSE, !.error = errorMessage(err),
                 !.results = << >>, !.analysis = ""]

\* setState(prev => ({ ...prev, isLoading: false, error: ... })).
setFailure(prev, err) ==
    [prev EXCEPT !.isLoading = FALSE, !.error = errorMessage(err)]

\* Variant of useCallbackLocation: useCallback with an empty dependency list.
useCallbackStale(captured, current) == captured

\* useCallback(..., [location]): the location the memoized handleSearch closes
\* over after a render in which `location` has the given value.
useCallbackLocation(captured, current) == current

----------------------------------------------------------------------------
\* What App renders from `state`.

errorBanner == state.error # Null /\ state.error # ""
resultsPanel == Len(state.results) > 0 \/ state.analysis # ""
landingPanel ==
    /\ ~state.isLoading
    /\ Len(state.results) = 0
    /\ ~errorBanner
    /\ state.query = << >>
loadingPanel == state.isLoading
submitButtonDisabled == state.isLoading

----------------------------------------------------------------------------
\* Initial state: App mounted, the geolocation effect has run.

Init ==
    /\ state = [query |-> << >>, results |-> << >>, analysis |-> "",
                isLoading |-> FALSE, error |-> Null]
    /\ location = Undefined
    /\ geo \in {"requested", "unsupported"}
    /\ handleSearchLocation = Undefined
    /\ inputValue = << >>
    /\ calls = {}
    /\ nextId = 1
    /\ lastEvent = Event("mount")

----------------------------------------------------------------------------
\* Actions

\* onChange of the search box.
setInputValue(value) ==
    /\ inputValue' = value
    /\ lastEvent' = Event("setInputValue")
    /\ UNCHANGED <<state, location, geo, handleSearchLocation, calls, nextId>>

\* handleSearch up to its await: the state update and the collaborator call.
handleSearch(query) ==
    /\ nextId <= MaxCalls
    /\ state' = setLoading(state, query)
    /\ calls' = calls \cup {[id |-> nextId, query |-> query,
                             location |-> handleSearchLocation]}
    /\ nextId' = nextId + 1

\* The form's submit event (line 48). The submit button is disabled while
\* isLoading (line 60); neither handleSubmit nor handleSearch tests isLoading,
\* so a submit event that reaches the form while a call is outstanding
\* dispatches a second, overlapping call.
handleSubmit ==
    /\ IF canSubmit(inputValue)
       THEN handleSearch(onSearchArgument(inputValue))
       ELSE UNCHANGED <<state, calls, nextId>>
    /\ lastEvent' = Event("handleSubmit")
    /\ UNCHANGED <<location, geo, handleSearchLocation, inputValue>>

\* The await of call c yields `data`: handleSearch resumes in its try block.
handleSearchSuccess(c, data) ==
    /\ c \in calls
    /\ state' = setSuccess(state, data)
    /\ calls' = calls \ {c}
    /\ lastEvent' = [Event("success") EXCEPT !.data = data]
    /\ UNCHANGED <<location, geo, handleSearchLocation, inputValue, nextId>>

\* The await of call c throws `err`: handleSearch resumes in its catch block.
handleSearchFailure(c, err) ==
    /\ c \in calls
    /\ state' = setFailure(state, err)
    /\ calls' = calls \ {c}
    /\ lastEvent' = [Event("failure") EXCEPT !.err = err]
    /\ UNCHANGED <<location, geo, handleSearchLocation, inputValue, nextId>>

\* getCurrentPosition's success callback, and the render that follows it.
geolocationSuccess(position) ==
    /\ geo = "requested"
    /\ geo' = "resolved"
    /\ location' = position
    /\ handleSearchLocation' = useCallbackLocation(handleSearchLocation, position)
    /\ lastEvent' = Event("geolocationSuccess")
    /\ UNCHANGED <<state, inputValue, calls, nextId>>

\* getCurrentPosition's error callback: a console warning only.
geolocationError ==
    /\ geo = "requested"
    /\ geo' = "denied"
    /\ lastEvent' = Event("geolocationError")
    /\ UNCHANGED <<state, location, handleSearchLocation, inputValue, calls, nextId>>

Next ==
    \/ \E value \in Inputs : setInputValue(value)
    \/ handleSubmit
    \/ \E c \in calls : \E data \in SearchData : handleSearchSuccess(c, data)
    \/ \E c \in calls : \E err \in Thrown : handleSearchFailure(c, err)
    \/ \E position \in Positions : geolocationSuccess(position)
    \/ geolocationError

Spec == Init /\ [][Next]_vars

----------------------------------------------------------------------------
\* Properties

\* Empty or whitespace only.
Blank(s) == \A i \in 1..Len(s) : s[i] \in WhiteSpace

\* No leading and no trailing whitespace.
Trimmed(s) == s = << >> \/ (Head(s) \notin WhiteSpace /\ s[Len(s)] \notin WhiteSpace)

\* C1: submitting a non-blank query sets isLoading = true, error = null and
\* query = q in one update, made while the new call is still outstanding, and
\* leaves results and analysis as they were.
C1_SubmitSetsLoading ==
    [][(lastEvent'.name = "handleSubmit" /\ ~Blank(inputValue)) =>
         /\ state' = [state EXCEPT !.isLoading = TRUE, !.error = Null,
                                   !.query = inputValue]
         /\ \E c \in calls' : c \notin calls /\ c.id = nextId]_vars

C1_Witness ==
    /\ lastEvent.name = "handleSubmit"
    /\ state.isLoading
    /\ state.error = Null
    /\ state.query = <<"a", " ">>
    /\ state.results = <<P1, P2>>
    /\ state.analysis = "A"

C3_FailureState ==
    [][(lastEvent'.name = "failure" /\ lastEvent'.err.isError) =>
         state' = [state EXCEPT !.error = lastEvent'.err.message,
                                !.isLoading = FALSE]]_vars

C3_Witness ==
    /\ lastEvent.name = "failure"
    /\ lastEvent.err.isError
    /\ state.error = "rate limited"
    /\ ~state.isLoading
    /\ state.results = <<P1, P2>>
    /\ state.analysis = "A"

\* C4: a failure that carries no message (a thrown value that is not an Error,
\* or an Error whose message is empty) leaves error equal to the generic
\* fallback text, so the error banner is displayed.
C4_FallbackMessage ==
    (lastEvent.name = "failure" /\ (~lastEvent.err.isError \/ lastEvent.err.message = ""))
        => (state.error = GenericMessage /\ errorBanner)

\* C5: submitting an empty or whitespace-only input changes none of the five
\* SearchState fields and dispatches no collaborator call.
C5_BlankSubmitNoOp ==
    [][(lastEvent'.name = "handleSubmit" /\ Blank(inputValue)) =>
         UNCHANGED <<state, calls, nextId>>]_vars

C5_Witness ==
    /\ lastEvent.name = "handleSubmit"
    /\ inputValue = <<" ">>
    /\ state.results = <<P1, P2>>
    /\ state.query = <<"a">>
    /\ calls = {}

\* C6: every call carries the location stored when it was dispatched: no
\* location if geolocation had not resolved by then (also after it resolves
\* while the call is outstanding), the resolved coordinates otherwise.
C6_LocationAtDispatch ==
    /\ [][nextId' # nextId =>
            \E c \in calls' :
                /\ c \notin calls
                /\ c.location = (IF geo = "resolved" THEN location ELSE Undefined)]_vars
    /\ [][\A c \in calls : \A d \in calls' :
            d.id = c.id => d.location = c.location]_vars
    /\ [](geo = "resolved" <=> location \in Positions)

C6_Witness ==
    /\ geo = "resolved"
    /\ \E c \in calls : \E d \in calls :
          /\ c.id < d.id
          /\ c.location = Undefined
          /\ d.location = location

\* C7: error is never set while results or analysis is non-empty, so exactly
\* one of {results or analysis non-empty, error set, neither} holds.
C7_ExclusiveBranches ==
    ~((Len(state.results) > 0 \/ state.analysis # "") /\ state.error # Null)

\* C7 as amended: the error banner can be displayed together with (stale)
\* results; the landing panel is displayed with none of the results panel, the
\* error banner and the loading indicator, and the error banner is never
\* displayed with the loading indicator.
C7_DisplayedBranches ==
    /\ landingPanel => ~(resultsPanel \/ errorBanner \/ loadingPanel)
    /\ ~(errorBanner /\ loadingPanel)

C7_Witness ==
    /\ errorBanner
    /\ resultsPanel
    /\ lastEvent.name = "failure"
    /\ state.results = <<P1, P2>>

\* C8: the query passed to the collaborator, and the stored query, have no
\* leading or trailing whitespace.
C8_QueryTrimmed ==
    /\ \A c \in calls : Trimmed(c.query)
    /\ Trimmed(state.query)

C10_NotLoadingWithError ==
    ~(state.isLoading /\ state.error # Null)

C10_Witness ==
    /\ lastEvent.name = "failure"
    /\ state.error = "rate limited"
    /\ ~state.isLoading
    /\ calls # {}

====
